---- MODULE Spec2Model ----
(***************************************************************************)
(* Risk prediction API (src/main.py): a registry of five trained models,   *)
(* loaded once, and the request handler predict_risks that reshapes the    *)
(* 5-trait feature vector for every model, calls the model, retries once   *)
(* after a shape-mismatch error, clamps the prediction and returns the     *)
(* five scores.                                                            *)
(*                                                                         *)
(* Numbers are integers: trait values are integers, and the models of the  *)
(* registry family below return whole values, NaN or a non-numeric object. *)
(* Texts (error messages) are sequences of one-character strings.          *)
(***************************************************************************)
EXTENDS Integers, Sequences, FiniteSets, TLC

\* ---------------------------------------------------------------- bounds

\* Largest number of models of a registry that differ from the plain model.
MaxUnusual == 1
\* Worker threads serving requests at the same time (concurrent runs).
NumWorkers == 2

\* ------------------------------------------------------ program constants

\* len(base_features): the five traits of a request.
NumFeatures == 5
\* conint(ge=0, le=100)
TraitMin == 0
TraitMax == 100
\* max(0.0, min(100.0, val))
ScoreMin == 0
ScoreMax == 100

\* MODEL_PATHS, in the order of the dict (the order models.items() iterates).
MODEL_PATHS ==
  << "phishing_risk", "weak_password_risk", "oversharing_risk",
     "emotional_manipulation_risk", "update_ignorance_risk" >>

RiskNames == { MODEL_PATHS[i] : i \in 1..Len(MODEL_PATHS) }

\* ------------------------------------------------------------ float values

Num(n) == [kind |-> "num", v |-> n]
NaN == [kind |-> "nan", v |-> 0]
\* An object float() cannot convert (a label, None).
NonNumeric == [kind |-> "text", v |-> 0]

\* Python's a < b on floats: false whenever NaN is involved.
FloatLt(a, b) == a.kind = "num" /\ b.kind = "num" /\ a.v < b.v

\* min(a, b) and max(a, b) of Python: the first argument unless the second
\* is strictly smaller (larger).
PyMin(a, b) == IF FloatLt(b, a) THEN b ELSE a
PyMax(a, b) == IF FloatLt(a, b) THEN b ELSE a

\* ------------------------------------------------------------------ texts

DigitChars == <<"0", "1", "2", "3", "4", "5", "6", "7", "8", "9">>
DigitSet == { DigitChars[i] : i \in 1..10 }

RECURSIVE Digits(_)
\* str(n) for n >= 0.
Digits(n) ==
  IF n < 10 THEN << DigitChars[n + 1] >>
  ELSE Digits(n \div 10) \o << DigitChars[(n % 10) + 1] >>

DigitValue(c) == (CHOOSE i \in 1..10 : DigitChars[i] = c) - 1

RECURSIVE ParseInt(_)
\* int(m.group(1)) of a non-empty run of digits.
ParseInt(ds) ==
  IF Len(ds) = 1 THEN DigitValue(ds[1])
  ELSE 10 * ParseInt(SubSeq(ds, 1, Len(ds) - 1)) + DigitValue(ds[Len(ds)])

W_expected == <<"e", "x", "p", "e", "c", "t", "e", "d">>
W_got == <<"g", "o", "t">>

\* The texts of the errors the models of the registry family raise, by format.
\* n1 is the width the message announces, n2 the length it was given.
Render(fmt, n1, n2) ==
  CASE fmt = "lower" ->     \* expected 7, got 5
         W_expected \o <<" ">> \o Digits(n1) \o <<",", " ">> \o W_got
         \o <<" ">> \o Digits(n2)
    [] fmt = "colon" ->     \* expected: 7 got: 5
         W_expected \o <<":", " ">> \o Digits(n1) \o <<" ">> \o W_got
         \o <<":", " ">> \o Digits(n2)
    [] fmt = "title" ->     \* Expected 7, got 5
         <<"E", "x", "p", "e", "c", "t", "e", "d", " ">> \o Digits(n1)
         \o <<",", " ">> \o W_got \o <<" ">> \o Digits(n2)
    [] fmt = "upper" ->     \* EXPECTED: 7 GOT: 5
         <<"E", "X", "P", "E", "C", "T", "E", "D", ":", " ">> \o Digits(n1)
         \o <<" ", "G", "O", "T", ":", " ">> \o Digits(n2)
    [] OTHER ->             \* X has 5 features, expecting 7
         <<"X", " ", "h", "a", "s", " ">> \o Digits(n2)
         \o <<" ", "f", "e", "a", "t", "u", "r", "e", "s", ",", " ",
              "e", "x", "p", "e", "c", "t", "i", "n", "g", " ">> \o Digits(n1)

\* str(e) of an exception.
StrOf(e) == Render(e.fmt, e.n1, e.n2)

IsAt(s, i, w) ==
  /\ i + Len(w) - 1 <= Len(s)
  /\ SubSeq(s, i, i + Len(w) - 1) = w

RECURSIVE SkipClass(_, _, _)
\* The first position from i on whose character is not in cls.
SkipClass(s, i, cls) ==
  IF i <= Len(s) /\ s[i] \in cls THEN SkipClass(s, i + 1, cls) ELSE i

NoMatch == [matched |-> FALSE, group1 |-> <<>>]

\* The pattern  expected[: ]+(\d+)[, ]+got[: ]+(\d+)  tried at position i.
\* Neighbouring character classes are disjoint, so the greedy match is the
\* only one.
MatchAt(s, i) ==
  LET a == i + Len(W_expected)
      b == SkipClass(s, a, {":", " "})
      c == SkipClass(s, b, DigitSet)
      d == SkipClass(s, c, {",", " "})
      e == d + Len(W_got)
      f == SkipClass(s, e, {":", " "})
      g == SkipClass(s, f, DigitSet)
  IN  IF /\ IsAt(s, i, W_expected) /\ b > a /\ c > b /\ d > c
         /\ IsAt(s, d, W_got) /\ f > e /\ g > f
      THEN [matched |-> TRUE, group1 |-> SubSeq(s, b, c - 1)]
      ELSE NoMatch

\* Lower-casing of the letters the messages use (what re.IGNORECASE would add).
LowerChar(c) ==
  CASE c = "E" -> "e" [] c = "X" -> "x" [] c = "P" -> "p" [] c = "C" -> "c"
    [] c = "T" -> "t" [] c = "D" -> "d" [] c = "G" -> "g" [] c = "O" -> "o"
    [] OTHER -> c

\* A variant of the search that ignores letter case.
re_search_ignorecase(s) ==
  LET t == [j \in 1..Len(s) |-> LowerChar(s[j])]
      hits == { i \in 1..Len(t) : MatchAt(t, i).matched }
  IN  IF hits = {} THEN NoMatch
      ELSE MatchAt(t, CHOOSE i \in hits : \A j \in hits : i <= j)

\* re.search(r"expected[: ]+(\d+)[, ]+got[: ]+(\d+)", msg): the leftmost match.
re_search(s) ==
  LET hits == { i \in 1..Len(s) : MatchAt(s, i).matched }
  IN  IF hits = {} THEN NoMatch
      ELSE MatchAt(s, CHOOSE i \in hits : \A j \in hits : i <= j)

\* ----------------------------------------------------------------- models

\* A metadata attribute of a model object: absent, present and accepted by
\* int(), or present and rejected by int().
Absent == [st |-> "absent", v |-> 0]
IntAttr(n) == [st |-> "int", v |-> n]
BadAttr == [st |-> "bad", v |-> 0]

\* A loaded model object. nin and nold are its attributes n_features_in_ and
\* n_features_. Its predict accepts vectors of length width and returns
\* bias + the sum of the vector (out = "lin"), NaN, a non-numeric object, or
\* (out = "picky") a non-numeric object for an all-zero vector and else as "lin";
\* for any other length it raises an exception of type errType whose message
\* has format fmt and announces the width said.
Model(nin, nold, width, errType, fmt, said, out, bias) ==
  [nin |-> nin, nold |-> nold, width |-> width, errType |-> errType,
   fmt |-> fmt, said |-> said, out |-> out, bias |-> bias]

\* The intercepts of the five plain models, in the order of MODEL_PATHS.
PlainBias == << -100, -200, 0, -140, -460 >>

\* The model a risk has unless the registry says otherwise: trained on the
\* five traits, five announced, an intercept of its own.
Plain(name) ==
  Model(IntAttr(5), Absent, 5, "ValueError", "sklearn", 5, "lin",
        PlainBias[CHOOSE i \in 1..Len(MODEL_PATHS) : MODEL_PATHS[i] = name])

\* The other models a registry may hold.
Unusual ==
  { Model(IntAttr(3), Absent, 3, "ValueError", "sklearn", 3, "lin", -30),
    Model(IntAttr(8), Absent, 8, "ValueError", "sklearn", 8, "lin", -90),
    Model(IntAttr(0), Absent, 0, "ValueError", "sklearn", 0, "lin", 42),
    Model(IntAttr(-2), Absent, 3, "ValueError", "sklearn", 3, "lin", -30),
    Model(IntAttr(-7), Absent, 0, "ValueError", "sklearn", 0, "lin", 42),
    Model(Absent, IntAttr(8), 8, "ValueError", "sklearn", 8, "lin", -90),
    Model(BadAttr, IntAttr(8), 8, "ValueError", "lower", 8, "lin", -90),
    Model(BadAttr, IntAttr(3), 3, "ValueError", "lower", 3, "lin", -30),
    Model(IntAttr(6), Absent, 7, "ValueError", "lower", 7, "lin", -90),
    Model(Absent, Absent, 7, "ValueError", "lower", 7, "lin", -90),
    Model(Absent, Absent, 7, "ValueError", "colon", 7, "lin", -90),
    Model(Absent, Absent, 7, "ValueError", "title", 7, "lin", -90),
    Model(Absent, Absent, 7, "ValueError", "upper", 7, "lin", -90),
    Model(Absent, Absent, 7, "ValueError", "sklearn", 7, "lin", -90),
    Model(Absent, Absent, 7, "TypeError", "lower", 7, "lin", -90),
    Model(Absent, Absent, 3, "ValueError", "lower", 3, "lin", -30),
    Model(Absent, Absent, 8, "ValueError", "lower", 7, "lin", -90),
    Model(Absent, Absent, 12, "ValueError", "lower", 12, "nan", 0),
    Model(IntAttr(5), Absent, 5, "ValueError", "sklearn", 5, "nan", 0),
    Model(IntAttr(5), Absent, 5, "ValueError", "sklearn", 5, "text", 0),
    Model(IntAttr(5), Absent, 5, "ValueError", "sklearn", 5, "picky", -100) }

\* The registries: every risk has the plain model except at most MaxUnusual.
Registries ==
  UNION { { [n \in RiskNames |-> IF n \in S THEN f[n] ELSE Plain(n)] :
              f \in [S -> Unusual] } :
          S \in { T \in SUBSET RiskNames : Cardinality(T) <= MaxUnusual } }

\* The registries of the concurrent runs: the first risk's model needs the
\* retry, or returns a non-numeric object for an all-zero request.
ConcRegistries ==
  { [n \in RiskNames |-> IF n = MODEL_PATHS[1] THEN m ELSE Plain(n)] :
      m \in { Model(Absent, Absent, 7, "ValueError", "lower", 7, "lin", -90),
              Model(IntAttr(5), Absent, 5, "ValueError", "sklearn", 5,
                    "picky", -100) } }

\* The request bodies clients send: the two boundary profiles, a profile of
\* five different values, and one the schema rejects.
Profiles ==
  { [i \in 1..NumFeatures |-> TraitMin],
    [i \in 1..NumFeatures |-> TraitMax],
    [i \in 1..NumFeatures |-> 10 * i],
    [i \in 1..NumFeatures |-> IF i = NumFeatures THEN TraitMax + 1 ELSE 10 * i] }

\* PersonalityInput: five integers, each conint(ge=0, le=100).
PersonalityInput(inp) ==
  /\ Len(inp) = NumFeatures
  /\ \A i \in 1..Len(inp) : TraitMin <= inp[i] /\ inp[i] <= TraitMax

RECURSIVE SumSeq(_)
SumSeq(vec) == IF vec = <<>> THEN 0 ELSE vec[1] + SumSeq(Tail(vec))

NoErr == [type |-> "none", fmt |-> "", n1 |-> 0, n2 |-> 0]

\* model.predict([features])[0]: the raw prediction, or the exception raised.
Predict(model, vec) ==
  IF Len(vec) = model.width
  THEN [ok |-> TRUE,
        raw |-> CASE model.out = "lin" -> Num(model.bias + SumSeq(vec))
                  [] model.out = "nan" -> NaN
                  [] model.out = "picky" /\ SumSeq(vec) # 0 ->
                       Num(model.bias + SumSeq(vec))
                  [] OTHER -> NonNumeric,
        err |-> NoErr]
  ELSE [ok |-> FALSE, raw |-> NonNumeric,
        err |-> [type |-> model.errType, fmt |-> model.fmt,
                 n1 |-> model.said, n2 |-> Len(vec)]]

\* ---------------------------------------------- the steps of predict_risks

Known(w) == [known |-> TRUE, w |-> w]
Unknown == [known |-> FALSE, w |-> 0]

\* A variant that goes on to n_features_ when n_features_in_ is rejected.
IntrospectFallThrough(model) ==
  IF model.nin.st = "int" THEN Known(model.nin.v)
  ELSE IF model.nold.st = "int" THEN Known(model.nold.v)
  ELSE Unknown

\* expected: n_features_in_ when the model has it, else n_features_ when the
\* model has it; None when the attribute consulted is rejected by int().
Introspect(model) ==
  IF model.nin.st # "absent"
  THEN (IF model.nin.st = "int" THEN Known(model.nin.v) ELSE Unknown)
  ELSE IF model.nold.st # "absent"
  THEN (IF model.nold.st = "int" THEN Known(model.nold.v) ELSE Unknown)
  ELSE Unknown

Zeros(n) == IF n > 0 THEN [i \in 1..n |-> 0] ELSE <<>>

\* A variant that pads one zero too few.
PadZerosShort(vec, n) == vec \o Zeros(n - 1)

\* features += [0.0] * n  (a list times a number <= 0 is empty).
PadZeros(vec, n) == vec \o Zeros(n)

\* features[:n] of Python: a negative n counts from the end.
SliceTo(vec, n) ==
  IF n >= 0 THEN SubSeq(vec, 1, IF n < Len(vec) THEN n ELSE Len(vec))
  ELSE SubSeq(vec, 1, IF Len(vec) + n > 0 THEN Len(vec) + n ELSE 0)

\* Pad or trim the working copy to the expected width.
Reshape(expected, features) ==
  IF expected.known /\ expected.w # Len(features)
  THEN IF expected.w > Len(features)
       THEN PadZeros(features, expected.w - Len(features))
       ELSE SliceTo(features, expected.w)
  ELSE features

NoDetail == [prefix |-> "", text |-> <<>>, risk |-> ""]
Detail(prefix, text) == [prefix |-> prefix, text |-> text, risk |-> ""]

\* A variant that retries after every matching message.
ShouldRetryAnyMatch(exp, features) == TRUE

\* if exp > len(features)
ShouldRetry(exp, features) == exp > Len(features)

\* The except clauses of the first predict call: retry says whether the
\* padded vector is tried again; otherwise detail is the HTTPException's.
OnFirstError(e, features) ==
  LET msg == StrOf(e)
      m == re_search(msg)
      exp == ParseInt(m.group1)
      raise == [retry |-> FALSE, features |-> features,
                detail |-> Detail("Prediction error: ", msg)]
  IN  IF e.type = "ValueError" /\ m.matched /\ ShouldRetry(exp, features)
      THEN [retry |-> TRUE,
            features |-> PadZeros(features, exp - Len(features)),
            detail |-> NoDetail]
      ELSE raise

\* A variant that reports the first attempt's message again.
OnRetryErrorOriginal(e2, e) == Detail("Prediction error: ", StrOf(e))

\* except Exception as e2, around the retried call (e is the first error).
OnRetryError(e2, e) == Detail("Prediction error after padding: ", StrOf(e2))

\* A variant that takes what float() rejects for 0.
CoerceLenient(pred) ==
  [ok |-> TRUE, val |-> IF pred.kind = "text" THEN Num(0) ELSE pred]

\* val = float(pred)
Coerce(pred) ==
  IF pred.kind = "text" THEN [ok |-> FALSE, val |-> NaN]
  ELSE [ok |-> TRUE, val |-> pred]

\* Variants with one side of the clamp missing.
ClampNoUpper(val) == PyMax(Num(ScoreMin), val)

ClampNoLower(val) == PyMin(Num(ScoreMax), val)

\* max(0.0, min(100.0, val))
Clamp(val) == PyMax(Num(ScoreMin), PyMin(Num(ScoreMax), val))

\* ------------------------------------------------------------------ state

VARIABLES
  models,         \* the registry: risk name -> loaded model object
  workers,        \* how many requests the server handles at the same time
  pc,             \* per worker: where its request is
  input,          \* per worker: the request body
  base_features,  \* per worker: the five traits as floats
  iter,           \* per worker: position of the loop over models.items()
  expected,       \* per worker: the expected width read from the model
  features,       \* per worker: the working copy for the current model
  pred,           \* per worker: the raw prediction of the current model
  first_err,      \* per worker: the exception of the first predict call
  results,        \* per invocation: the scores recorded so far
  calls,          \* per worker: the predict calls made for its request
  resp            \* per worker: the response sent

vars == << models, workers, pc, input, base_features, iter, expected,
           features, pred, first_err, results, calls, resp >>

Workers == 1..workers

NoResp == [status |-> 0, body |-> <<>>, detail |-> NoDetail]

\* A variant with one module-level dict for all invocations.
ResultsOwnerShared(r) == 1

\* results = {} : every invocation has a dict of its own.
ResultsOwner(r) == r

InitWith(n, registries) ==
  /\ models \in registries
  /\ workers = n
  /\ pc = [r \in 1..n |-> "idle"]
  /\ input = [r \in 1..n |-> <<>>]
  /\ base_features = [r \in 1..n |-> <<>>]
  /\ iter = [r \in 1..n |-> 0]
  /\ expected = [r \in 1..n |-> Unknown]
  /\ features = [r \in 1..n |-> <<>>]
  /\ pred = [r \in 1..n |-> NonNumeric]
  /\ first_err = [r \in 1..n |-> NoErr]
  /\ results = [r \in 1..n |-> <<>>]
  /\ calls = [r \in 1..n |-> <<>>]
  /\ resp = [r \in 1..n |-> NoResp]

\* The server after start-up: the five models are loaded, no request yet.
Init == InitWith(1, Registries)

InitConc == InitWith(NumWorkers, ConcRegistries)

\* The model the loop is at.
CurrentModel(r) == models[MODEL_PATHS[iter[r]]]

\* A request arrives. A body the schema rejects is answered 422 before the
\* handler runs; otherwise predict_risks starts: base_features, results = {}.
Submit(r, inp) ==
  /\ pc[r] = "idle"
  /\ input' = [input EXCEPT ![r] = inp]
  /\ IF PersonalityInput(inp)
     THEN /\ base_features' = [base_features EXCEPT ![r] = inp]
          /\ results' = [results EXCEPT ![ResultsOwner(r)] = <<>>]
          /\ iter' = [iter EXCEPT ![r] = 1]
          /\ pc' = [pc EXCEPT ![r] = "loop"]
          /\ resp' = [resp EXCEPT ![r] = NoResp]
     ELSE /\ resp' = [resp EXCEPT ![r] =
                        [status |-> 422, body |-> <<>>, detail |-> NoDetail]]
          /\ pc' = [pc EXCEPT ![r] = "done"]
          /\ UNCHANGED << base_features, results, iter >>
  /\ UNCHANGED << models, workers, expected, features, pred, first_err,
                  calls >>

\* Top of the loop body: copy base_features, read the expected width, pad or
\* trim the copy.
Prepare(r) ==
  /\ pc[r] = "loop"
  /\ iter[r] <= Len(MODEL_PATHS)
  /\ expected' = [expected EXCEPT ![r] = Introspect(CurrentModel(r))]
  /\ features' = [features EXCEPT ![r] =
                    Reshape(expected'[r], base_features[r])]
  /\ pc' = [pc EXCEPT ![r] = "predict"]
  /\ UNCHANGED << models, workers, input, base_features, iter, pred,
                  first_err, results, calls, resp >>

Call(r, out) ==
  [iter |-> iter[r], expected |-> expected[r], vec |-> features[r],
   ok |-> out.ok, raw |-> out.raw, err |-> out.err]

Error500(detail) == [status |-> 500, body |-> <<>>, detail |-> detail]

\* The first predict call and, when it raises, its except clauses.
FirstPredict(r) ==
  /\ pc[r] = "predict"
  /\ LET out == Predict(CurrentModel(r), features[r])
         h == OnFirstError(out.err, features[r])
     IN  /\ calls' = [calls EXCEPT ![r] = Append(@, Call(r, out))]
         /\ IF out.ok
            THEN /\ pred' = [pred EXCEPT ![r] = out.raw]
                 /\ pc' = [pc EXCEPT ![r] = "coerce"]
                 /\ UNCHANGED << features, first_err, resp >>
            ELSE IF h.retry
            THEN /\ features' = [features EXCEPT ![r] = h.features]
                 /\ first_err' = [first_err EXCEPT ![r] = out.err]
                 /\ pc' = [pc EXCEPT ![r] = "retry"]
                 /\ UNCHANGED << pred, resp >>
            ELSE /\ resp' = [resp EXCEPT ![r] = Error500(h.detail)]
                 /\ pc' = [pc EXCEPT ![r] = "done"]
                 /\ UNCHANGED << features, first_err, pred >>
  /\ UNCHANGED << models, workers, input, base_features, iter, expected,
                  results >>

\* The retried predict call, with the padded vector.
RetryPredict(r) ==
  /\ pc[r] = "retry"
  /\ LET out == Predict(CurrentModel(r), features[r])
     IN  /\ calls' = [calls EXCEPT ![r] = Append(@, Call(r, out))]
         /\ IF out.ok
            THEN /\ pred' = [pred EXCEPT ![r] = out.raw]
                 /\ pc' = [pc EXCEPT ![r] = "coerce"]
                 /\ UNCHANGED resp
            ELSE /\ resp' = [resp EXCEPT ![r] =
                               Error500(OnRetryError(out.err, first_err[r]))]
                 /\ pc' = [pc EXCEPT ![r] = "done"]
                 /\ UNCHANGED pred
  /\ UNCHANGED << models, workers, input, base_features, iter, expected,
                  features, first_err, results >>

\* float(pred), the clamp, results[risk] = ...; then on to the next model.
Record(r) ==
  /\ pc[r] = "coerce"
  /\ LET c == Coerce(pred[r])
         name == MODEL_PATHS[iter[r]]
     IN  IF c.ok
         THEN /\ results' = [results EXCEPT ![ResultsOwner(r)] =
                               (name :> Clamp(c.val)) @@ @]
              /\ iter' = [iter EXCEPT ![r] = @ + 1]
              /\ pc' = [pc EXCEPT ![r] = "loop"]
              /\ UNCHANGED resp
         ELSE /\ resp' = [resp EXCEPT ![r] = Error500(
                   [prefix |-> "Model returned non-numeric prediction for ",
                    text |-> <<>>, risk |-> name])]
              /\ pc' = [pc EXCEPT ![r] = "done"]
              /\ UNCHANGED << results, iter >>
  /\ UNCHANGED << models, workers, input, base_features, expected, features,
                  pred, first_err, calls >>

\* return RiskScores(**results)
Return(r) ==
  /\ pc[r] = "loop"
  /\ iter[r] > Len(MODEL_PATHS)
  /\ resp' = [resp EXCEPT ![r] =
                [status |-> 200, body |-> results[ResultsOwner(r)],
                 detail |-> NoDetail]]
  /\ pc' = [pc EXCEPT ![r] = "done"]
  /\ UNCHANGED << models, workers, input, base_features, iter, expected,
                  features, pred, first_err, results, calls >>

\* The response is sent; what the request created is discarded and the
\* worker is free for the next request.
Finish(r) ==
  /\ pc[r] = "done"
  /\ pc' = [pc EXCEPT ![r] = "idle"]
  /\ input' = [input EXCEPT ![r] = <<>>]
  /\ base_features' = [base_features EXCEPT ![r] = <<>>]
  /\ iter' = [iter EXCEPT ![r] = 0]
  /\ expected' = [expected EXCEPT ![r] = Unknown]
  /\ features' = [features EXCEPT ![r] = <<>>]
  /\ pred' = [pred EXCEPT ![r] = NonNumeric]
  /\ first_err' = [first_err EXCEPT ![r] = NoErr]
  /\ calls' = [calls EXCEPT ![r] = <<>>]
  /\ resp' = [resp EXCEPT ![r] = NoResp]
  /\ UNCHANGED << models, workers, results >>

Next ==
  \/ \E r \in Workers, inp \in Profiles : Submit(r, inp)
  \/ \E r \in Workers : Prepare(r)
  \/ \E r \in Workers : FirstPredict(r)
  \/ \E r \in Workers : RetryPredict(r)
  \/ \E r \in Workers : Record(r)
  \/ \E r \in Workers : Return(r)
  \/ \E r \in Workers : Finish(r)

\* One request at a time.
Spec == Init /\ [][Next]_vars

\* NumWorkers requests at the same time.
SpecConc == InitConc /\ [][Next]_vars

\* ------------------------------------------------- a request run on its own

RECURSIVE RunFrom(_, _, _, _)
\* The response of predict_risks for base_features base, from the i-th model
\* on, with the scores acc recorded so far: the loop body, one model after
\* the other.
RunFrom(reg, base, i, acc) ==
  IF i > Len(MODEL_PATHS)
  THEN [status |-> 200, body |-> acc, detail |-> NoDetail]
  ELSE
    LET name == MODEL_PATHS[i]
        vec == Reshape(Introspect(reg[name]), base)
        first == Predict(reg[name], vec)
        h == OnFirstError(first.err, vec)
        second == Predict(reg[name], h.features)
        out == IF first.ok THEN first ELSE second
        c == Coerce(out.raw)
    IN  IF ~first.ok /\ ~h.retry THEN Error500(h.detail)
        ELSE IF ~first.ok /\ ~second.ok
        THEN Error500(OnRetryError(second.err, first.err))
        ELSE IF ~c.ok
        THEN Error500(
               [prefix |-> "Model returned non-numeric prediction for ",
                text |-> <<>>, risk |-> name])
        ELSE RunFrom(reg, base, i + 1, (name :> Clamp(c.val)) @@ acc)

\* The response to request body inp when no other request is being served.
Alone(reg, inp) ==
  IF PersonalityInput(inp) THEN RunFrom(reg, inp, 1, <<>>)
  ELSE [status |-> 422, body |-> <<>>, detail |-> NoDetail]

\* ----------------------------------------------------------------- claims

\* The j-th predict call of worker r's request is the first one made for
\* its model.
IsFirstCall(r, j) == j = 1 \/ calls[r][j - 1].iter # calls[r][j].iter

\* It is the second one (the retry).
IsRetryCall(r, j) == j > 1 /\ calls[r][j - 1].iter = calls[r][j].iter

\* The call raised a value error whose message matches the pattern with an
\* announced width greater than the length of the vector tried.
Retryable(c) ==
  /\ ~c.ok
  /\ c.err.type = "ValueError"
  /\ re_search(StrOf(c.err)).matched
  /\ ParseInt(re_search(StrOf(c.err)).group1) > Len(c.vec)

\* The vector of call c right-padded with zeros to the width its error
\* message announces.
PaddedToAnnounced(c) ==
  [i \in 1..ParseInt(re_search(StrOf(c.err)).group1) |->
     IF i <= Len(c.vec) THEN c.vec[i] ELSE 0]

\* v limited to 0..100.
Limited(v) == IF v < 0 THEN 0 ELSE IF v > 100 THEN 100 ELSE v

\* The score of the model of call c has been recorded.
Recorded(r, c) == c.ok /\ c.iter < iter[r]

Finished(r) == pc[r] = "done"

\* C1: a success response holds exactly the five risk names, and each of
\* its five values is a number in the closed interval [0, 100].
C1_SuccessHasFiveScoresInRange ==
  \A r \in Workers :
    resp[r].status = 200 =>
      /\ DOMAIN resp[r].body = RiskNames
      /\ Cardinality(DOMAIN resp[r].body) = 5
      /\ \A n \in RiskNames :
           /\ resp[r].body[n].kind = "num"
           /\ 0 <= resp[r].body[n].v
           /\ resp[r].body[n].v <= 100

\* A success response of a request one of whose models returned NaN and
\* another a value below 0.
C1_Witness ==
  \E r \in Workers :
    /\ resp[r].status = 200
    /\ \E j \in 1..Len(calls[r]) : calls[r][j].ok /\ calls[r][j].raw.kind = "nan"
    /\ \E j \in 1..Len(calls[r]) :
         calls[r][j].raw.kind = "num" /\ calls[r][j].raw.v < 0

\* C2 (as claimed): whatever integer w the introspection yields, the vector
\* of a model's first predict call has length w: the first w request
\* features when w < 5, the 5 features and w - 5 zeros when w > 5; with
\* w = 5 or an unknown width it is the 5 request features.
C2_FirstCallVectorHasExpectedWidth ==
  \A r \in Workers : \A j \in 1..Len(calls[r]) :
    IsFirstCall(r, j) =>
      LET c == calls[r][j]
          w == c.expected.w
          base == base_features[r]
      IN  IF c.expected.known /\ w # 5
          THEN /\ Len(c.vec) = w
               /\ w < 5 => c.vec = [i \in 1..w |-> base[i]]
               /\ w > 5 => c.vec = [i \in 1..w |-> IF i <= 5 THEN base[i] ELSE 0]
          ELSE c.vec = base

\* C3: after a first call that raised a value error matching the pattern
\* with N1 greater than the length tried, the same model is called exactly
\* once more, with the same vector right-padded with zeros to length N1; a
\* successful retry's result, clamped, is the score recorded for the risk;
\* a failed retry ends the request in an error response.
C3_PaddingRetry ==
  \A r \in Workers : \A j \in 1..Len(calls[r]) :
    LET c == calls[r][j]
        n == Len(calls[r])
    IN  (IsFirstCall(r, j) /\ Retryable(c)) =>
          IF j = n
          THEN pc[r] = "retry" /\ features[r] = PaddedToAnnounced(c)
          ELSE LET d == calls[r][j + 1]
               IN  /\ d.iter = c.iter
                   /\ d.vec = PaddedToAnnounced(c)
                   /\ j + 2 <= n => calls[r][j + 2].iter # c.iter
                   /\ (Recorded(r, d) /\ d.raw.kind = "num") =>
                        /\ MODEL_PATHS[d.iter] \in DOMAIN results[r]
                        /\ results[r][MODEL_PATHS[d.iter]] = Num(Limited(d.raw.v))
                   /\ ~d.ok =>
                        /\ j + 1 = n
                        /\ Finished(r)
                        /\ resp[r].status = 500

\* A retry succeeded, its score is recorded and the loop went on.
C3_Witness ==
  \E r \in Workers : \E j \in 1..Len(calls[r]) :
    /\ IsRetryCall(r, j)
    /\ Retryable(calls[r][j - 1])
    /\ Len(calls[r][j].vec) = 7
    /\ Recorded(r, calls[r][j])
    /\ results[r][MODEL_PATHS[calls[r][j].iter]].v = 60

\* The last predict call of worker r's request left its model without a
\* usable numeric result: it failed and no retry is due, or it returned
\* something float() rejects and the coercion has been attempted.
Unusable(r) ==
  /\ calls[r] # <<>>
  /\ LET c == calls[r][Len(calls[r])]
     IN  \/ ~c.ok /\ pc[r] # "retry"
         \/ c.ok /\ c.raw.kind = "text" /\ pc[r] # "coerce"

\* C4: when a model yields no usable numeric result the request ends with
\* a 500 response that carries a detail and no scores, and no later model
\* is invoked; a success response means that every model yielded a numeric
\* result.
C4_AllOrNothing ==
  \A r \in Workers :
    LET n == Len(calls[r])
    IN  /\ Unusable(r) =>
             /\ Finished(r)
             /\ resp[r].status = 500
             /\ resp[r].body = <<>>
             /\ resp[r].detail.prefix # ""
        /\ \A j \in 1..n :
             (j < n /\ ~calls[r][j].ok) =>
                /\ IsFirstCall(r, j)
                /\ calls[r][j + 1].iter = calls[r][j].iter
        /\ \A j \in 1..n :
             (j < n /\ calls[r][j].ok) => calls[r][j].raw.kind # "text"
        /\ resp[r].status = 200 =>
             \A i \in 1..5 : \E j \in 1..n :
               /\ calls[r][j].iter = i
               /\ calls[r][j].ok
               /\ calls[r][j].raw.kind # "text"
        /\ resp[r].status \in {0, 200, 422, 500}
        /\ resp[r].status = 500 => Unusable(r)

\* A request failed at its third model or later, with scores already
\* recorded for the earlier ones.
C4_Witness ==
  \E r \in Workers :
    /\ resp[r].status = 500
    /\ iter[r] >= 3
    /\ Cardinality(DOMAIN results[r]) >= 2
    /\ Len(calls[r]) = iter[r]

\* C5: the score recorded for a model whose predict call returned the
\* number v is 0 when v < 0, 100 when v > 100, and v otherwise.
C5_Clamping ==
  \A r \in Workers : \A j \in 1..Len(calls[r]) :
    LET c == calls[r][j]
        name == MODEL_PATHS[c.iter]
    IN  (Recorded(r, c) /\ c.raw.kind = "num") =>
          /\ name \in DOMAIN results[r]
          /\ results[r][name].kind = "num"
          /\ c.raw.v < 0 => results[r][name].v = 0
          /\ c.raw.v > 100 => results[r][name].v = 100
          /\ (0 <= c.raw.v /\ c.raw.v <= 100) => results[r][name].v = c.raw.v

\* One request has recorded a score from a raw value below 0, one from a
\* raw value above 100 and one from a raw value strictly between.
C5_Witness ==
  \E r \in Workers :
    \E j1, j2, j3 \in 1..Len(calls[r]) :
      /\ Recorded(r, calls[r][j1]) /\ calls[r][j1].raw.kind = "num"
      /\ Recorded(r, calls[r][j2]) /\ calls[r][j2].raw.kind = "num"
      /\ Recorded(r, calls[r][j3]) /\ calls[r][j3].raw.kind = "num"
      /\ calls[r][j1].raw.v < 0
      /\ calls[r][j2].raw.v > 100
      /\ calls[r][j3].raw.v > 0 /\ calls[r][j3].raw.v < 100

\* C6: no step of a request writes the model registry, and whatever the
\* other requests do meanwhile, a request's response is the one the same
\* body gets when served alone, and stays that until it is sent (so equal
\* bodies get equal responses, and a failing request changes no other
\* request's response).
C6_Isolation ==
  [][ /\ models' = models
      /\ \A r \in Workers :
           pc'[r] = "done" =>
             IF pc[r] = "done"
             THEN resp'[r] = resp[r] /\ input'[r] = input[r]
             ELSE resp'[r] = Alone(models, input'[r]) ]_vars

\* Two requests are answered at the same time, one with an error and one
\* with five scores, and both were served while the other was in progress.
C6_Witness ==
  \E r1, r2 \in Workers :
    /\ pc[r1] = "done" /\ resp[r1].status = 500 /\ calls[r1] # <<>>
    /\ pc[r2] = "done" /\ resp[r2].status = 200

\* The first predict call made for the model the request of worker r
\* failed at.
FailingFirstCall(r) ==
  LET n == Len(calls[r])
  IN  IF IsRetryCall(r, n) THEN calls[r][n - 1] ELSE calls[r][n]

\* The request of worker r ended with an unresolved value error of predict.
UnresolvedValueError(r) ==
  /\ resp[r].status = 500
  /\ calls[r] # <<>>
  /\ ~calls[r][Len(calls[r])].ok
  /\ FailingFirstCall(r).err.type = "ValueError"

\* C7 (as claimed): whether the padding retry failed, the announced width
\* did not exceed the vector's length or the message did not match, the
\* error response carries the message of the first attempt's value error.
C7_ErrorCarriesOriginalMessage ==
  \A r \in Workers :
    UnresolvedValueError(r) =>
      resp[r].detail.text = StrOf(FailingFirstCall(r).err)

\* C7 (amended): when the announced width did not exceed the vector's
\* length or the message did not match, the detail is "Prediction error: "
\* and the message of the first attempt's value error; when the padding
\* retry failed, it is "Prediction error after padding: " and the message
\* of the retry's error.
C7_ErrorMessage ==
  \A r \in Workers :
    UnresolvedValueError(r) =>
      LET n == Len(calls[r])
      IN  IF IsRetryCall(r, n)
          THEN /\ resp[r].detail.prefix = "Prediction error after padding: "
               /\ resp[r].detail.text = StrOf(calls[r][n].err)
          ELSE /\ resp[r].detail.prefix = "Prediction error: "
               /\ resp[r].detail.text = StrOf(calls[r][n].err)

\* A request ended after a failed retry whose error message differs from
\* the first attempt's.
C7_Witness ==
  \E r \in Workers :
    /\ UnresolvedValueError(r)
    /\ IsRetryCall(r, Len(calls[r]))
    /\ StrOf(calls[r][Len(calls[r])].err) # StrOf(FailingFirstCall(r).err)

\* C8: a model's predict is called at most twice per request; a second
\* call follows only a first call that raised a value error matching the
\* pattern with N1 greater than the vector's length; any other failure of
\* the first call, and any failure of the retry, is the request's last
\* call and ends it with an error.
C8_RetryBound ==
  \A r \in Workers :
    LET n == Len(calls[r])
    IN  /\ \A i \in 1..5 :
             Cardinality({ j \in 1..n : calls[r][j].iter = i }) <= 2
        /\ \A j \in 1..n :
             IsRetryCall(r, j) =>
               /\ IsFirstCall(r, j - 1)
               /\ Retryable(calls[r][j - 1])
        /\ \A j \in 1..n :
             (~calls[r][j].ok /\ (IsRetryCall(r, j) \/ ~Retryable(calls[r][j]))) =>
               /\ j = n
               /\ Finished(r)
               /\ resp[r].status = 500

\* A request ended at a first call whose message matched the pattern but
\* announced no more than the vector's length.
C8_Witness ==
  \E r \in Workers :
    /\ Finished(r)
    /\ calls[r] # <<>>
    /\ LET c == calls[r][Len(calls[r])]
       IN  /\ IsFirstCall(r, Len(calls[r]))
           /\ ~c.ok
           /\ c.err.type = "ValueError"
           /\ re_search(StrOf(c.err)).matched
           /\ c.err.n1 <= Len(c.vec)

\* The error's message writes "expected" or "got" with capital letters.
Capitalised(e) == e.fmt \in {"title", "upper"}

\* The error's message is the pattern in lower case.
LowerCase(e) == e.fmt \in {"lower", "colon"}

\* C9 (as claimed): a value error whose message writes "expected N1" and
\* "got N2" in any letter case, with N1 greater than the vector's length,
\* is followed by the padding retry.
C9_AnyCaseRetries ==
  \A r \in Workers : \A j \in 1..Len(calls[r]) :
    LET c == calls[r][j]
    IN  ( /\ IsFirstCall(r, j) /\ ~c.ok /\ c.err.type = "ValueError"
          /\ (Capitalised(c.err) \/ LowerCase(c.err))
          /\ c.err.n1 > Len(c.vec) ) =>
          \/ j = Len(calls[r]) /\ pc[r] = "retry"
          \/ j < Len(calls[r]) /\ IsRetryCall(r, j + 1)

\* C9 (amended): the match is case-sensitive. A value error whose message
\* writes the words in lower case, with N1 greater than the vector's
\* length, is followed by the padding retry, with ":" or " " after the
\* words and "," or " " between the parts; a message with capital letters
\* is not matched: no retry follows and the request ends with
\* "Prediction error: " and that message.
C9_CaseSensitive ==
  \A r \in Workers : \A j \in 1..Len(calls[r]) :
    LET c == calls[r][j]
        n == Len(calls[r])
    IN  ( /\ IsFirstCall(r, j) /\ ~c.ok /\ c.err.type = "ValueError"
          /\ c.err.n1 > Len(c.vec) ) =>
          /\ LowerCase(c.err) =>
               \/ j = n /\ pc[r] = "retry"
               \/ j < n /\ IsRetryCall(r, j + 1)
          /\ Capitalised(c.err) =>
               /\ j = n
               /\ Finished(r)
               /\ resp[r].status = 500
               /\ resp[r].detail = Detail("Prediction error: ", StrOf(c.err))

\* A request ended, without a retry, at a value error whose capitalised
\* message announces more than the vector's length.
C9_Witness ==
  \E r \in Workers :
    /\ Finished(r)
    /\ Len(calls[r]) = 1
    /\ ~calls[r][1].ok
    /\ calls[r][1].err.type = "ValueError"
    /\ Capitalised(calls[r][1].err)
    /\ calls[r][1].err.n1 > Len(calls[r][1].vec)

\* The request of worker r is in its loop body, after the width was read.
InBody(r) == pc[r] \in {"predict", "retry", "coerce"}

\* C10 (as claimed): for a model whose n_features_in_ cannot be coerced to
\* an integer while its n_features_ can, the width is known and is the
\* n_features_ value.
C10_FallsBackToSecondAttribute ==
  \A r \in Workers :
    (InBody(r) /\ CurrentModel(r).nin.st = "bad"
               /\ CurrentModel(r).nold.st = "int") =>
      expected[r] = Known(CurrentModel(r).nold.v)

\* C10 (amended): the width is the n_features_in_ value when the model has
\* that attribute and int() accepts it, and the n_features_ value when the
\* model has no n_features_in_ and int() accepts its n_features_; else it is
\* unknown: so it is when n_features_in_ is present but cannot be coerced,
\* whatever n_features_ is.
C10_Introspection ==
  \A r \in Workers :
    InBody(r) =>
      LET m == CurrentModel(r)
      IN  /\ m.nin.st = "int" => expected[r] = Known(m.nin.v)
          /\ m.nin.st = "bad" => ~expected[r].known
          /\ (m.nin.st = "absent" /\ m.nold.st = "int") =>
               expected[r] = Known(m.nold.v)
          /\ (m.nin.st = "absent" /\ m.nold.st # "int") => ~expected[r].known

\* The first call for a model whose n_features_in_ is rejected and whose
\* n_features_ is 8 was made with the five request features.
C10_Witness ==
  \E r \in Workers :
    /\ pc[r] = "retry"
    /\ CurrentModel(r).nin.st = "bad"
    /\ CurrentModel(r).nold = IntAttr(8)
    /\ ~expected[r].known
    /\ Len(calls[r][Len(calls[r])].vec) = 5

====
